---- MODULE Spec2Model ----
(***************************************************************************)
(* RecordTheseHands, server/collector: the metadata dump (dump_4.py) and   *)
(* the three analysis scripts that read it (verify_clips.py, check.py,     *)
(* video_2.py).                                                            *)
(*                                                                         *)
(* Values.  A JSON / dict field is a record whose k says whether the key   *)
(* is absent, holds null (None) or holds a value; v is the value.  Times   *)
(* are integers in units of 1/10000 s.  Strings the code matches with a    *)
(* regular expression are tuples of one-character strings.                 *)
(***************************************************************************)
EXTENDS Integers, Sequences, FiniteSets, TLC

VARIABLES
  store,        \* Firestore: username -> documents of collector/users/<u>/data/save_clip
  fetched,      \* username -> what get_data(username) computes from those documents
  pc,           \* position of dump_4.main
  ui,           \* index into usernames of the user being fetched
  retries,      \* RetryErrors seen so far in the run, counted up to MaxRetries
  all_clips,    \* main: all_clips
  all_sessions, \* main: all_sessions
  dump,         \* metadata_dump.json ([written, clips, sessions]) and the dump csv rows
  verify,       \* outcome of verify_clips.verify_clip_quality on the dump
  analysis,     \* outcome of check.analyze_clips on the dump
  prompts,      \* outcome of video_2.detect_missing_prompts on the dump
  call,         \* a pending call of one function on its own: [fn, arg]
  ret           \* what that call returned

vars == <<store, fetched, pc, ui, retries, all_clips, all_sessions, dump, verify, analysis, prompts,
         call, ret>>

----------------------------------------------------------------------------
(* Bounds of the model *)
MaxTime == 1       \* event timestamps range over 0..MaxTime
MaxDocs == 2       \* documents in the store, over all users
MaxUsers == 2      \* usernames
MaxRetries == 1    \* RetryErrors that the model counts
MaxClips == 3      \* records of a dump handed directly to an analysis script
MaxGapClips == 4   \* records handed directly to analyze_session_gaps
MaxClipIndex == 4  \* clip indices of those records range over 0..MaxClipIndex
MaxPromptClips == 2 \* records handed directly to detect_missing_prompts
MaxLines == 2      \* lines of the reference prompts file

----------------------------------------------------------------------------
(* Optional values *)
Absent(d) == [k |-> "absent", v |-> d]
Null(d) == [k |-> "null", v |-> d]
Val(x) == [k |-> "val", v |-> x]

\* dict.get(key): a missing key reads as None
DictGet(f) == IF f.k = "absent" THEN [k |-> "null", v |-> f.v] ELSE f
\* dict.get(key, default)
DictGetDefault(f, d) == IF f.k = "absent" THEN Val(d) ELSE f
\* key in dict
HasKey(f) == f.k # "absent"
IsNone(f) == f.k # "val"

----------------------------------------------------------------------------
(* Timestamp strings: form is how the string ends ("Z", an explicit        *)
(* "offset", "naive" for none), "bad" for a string that is not ISO-8601,   *)
(* "empty" for the empty string; t is the instant the string names.        *)
TsAbsent == [k |-> "absent", form |-> "-", t |-> 0]
TsNull == [k |-> "null", form |-> "-", t |-> 0]
TsEmpty == [k |-> "str", form |-> "empty", t |-> 0]
Ts(form, t) == [k |-> "str", form |-> form, t |-> t]

\* dict.get on a timestamp field
TsGet(f) == IF f.k = "absent" THEN TsNull ELSE f
\* Python truthiness of a str-or-None
TsTruthy(f) == f.k = "str" /\ f.form # "empty"

\* a parser that takes any string for a time
parse_iso_timestamp_Lenient(ts) == [err |-> "", aware |-> TRUE, t |-> ts.t]

\* _parse_iso_timestamp: a trailing Z becomes +00:00, then fromisoformat
parse_iso_timestamp(ts) ==
  IF ts.k # "str" THEN [err |-> "ValueError", aware |-> FALSE, t |-> 0]
  ELSE LET form == IF ts.form = "Z" THEN "offset" ELSE ts.form
       IN IF form = "offset" THEN [err |-> "", aware |-> TRUE, t |-> ts.t]
          ELSE IF form = "naive" THEN [err |-> "", aware |-> FALSE, t |-> ts.t]
          ELSE [err |-> "ValueError", aware |-> FALSE, t |-> 0]

\* what get_clip_bounds_in_video returns: a pair of optional numbers, or the
\* exception it raises (err)
Bounds(s, e) == [err |-> "", start_s |-> s, end_s |-> e]
BoundsNone == Bounds(Null(0), Null(0))
BoundsRaise(e) == [err |-> e, start_s |-> Null(0), end_s |-> Null(0)]

clip_start_choice_UpFirst(clip_data) ==
  LET clip_start == TsGet(clip_data.startButtonUpTimestamp)
  IN IF ~TsTruthy(clip_start) THEN TsGet(clip_data.startButtonDownTimestamp)
     ELSE clip_start

\* get_clip_bounds_in_video, lines 171-173: the start event
clip_start_choice(clip_data) ==
  LET clip_start == TsGet(clip_data.startButtonDownTimestamp)
  IN IF ~TsTruthy(clip_start) THEN TsGet(clip_data.startButtonUpTimestamp)
     ELSE clip_start

\* get_clip_bounds_in_video, lines 177-181: the end event
clip_end_choice(clip_data) ==
  LET restart == TsGet(clip_data.restartButtonDownTimestamp)
      fwd == TsGet(clip_data.swipeForwardTimestamp)
  IN IF TsTruthy(restart) THEN restart
     ELSE IF TsTruthy(fwd) THEN fwd
     ELSE TsGet(clip_data.swipeBackTimestamp)

\* get_clip_bounds_in_video, lines 185-192: parse the three strings, subtract
bounds_from(video_start, clip_start, clip_end) ==
  LET video_start_time == parse_iso_timestamp(video_start)
      clip_start_time == parse_iso_timestamp(clip_start)
      clip_end_time == parse_iso_timestamp(clip_end)
  IN IF video_start_time.err # "" THEN BoundsRaise(video_start_time.err)
     ELSE IF clip_start_time.err # "" THEN BoundsRaise(clip_start_time.err)
     ELSE IF clip_end_time.err # "" THEN BoundsRaise(clip_end_time.err)
     ELSE IF clip_start_time.aware # video_start_time.aware THEN BoundsRaise("TypeError")
     ELSE IF clip_end_time.aware # video_start_time.aware THEN BoundsRaise("TypeError")
     ELSE Bounds(Val(clip_start_time.t - video_start_time.t),
                 Val(clip_end_time.t - video_start_time.t))

get_clip_bounds_in_video_StartOnly(clip_data) ==
  LET video_start == TsGet(clip_data.videoStart)
      clip_start == clip_start_choice(clip_data)
      clip_end == clip_end_choice(clip_data)
  IN IF ~TsTruthy(video_start) THEN BoundsNone
     ELSE IF ~TsTruthy(clip_start) THEN BoundsNone
     ELSE IF ~TsTruthy(clip_end)
       THEN LET b == bounds_from(video_start, clip_start, clip_start)
            IN IF b.err # "" THEN b ELSE Bounds(b.start_s, Null(0))
     ELSE bounds_from(video_start, clip_start, clip_end)

\* get_clip_bounds_in_video
get_clip_bounds_in_video(clip_data) ==
  LET video_start == TsGet(clip_data.videoStart)
      clip_start == clip_start_choice(clip_data)
      clip_end == clip_end_choice(clip_data)
  IN IF ~TsTruthy(video_start) THEN BoundsNone
     ELSE IF ~TsTruthy(clip_start) THEN BoundsNone
     ELSE IF ~TsTruthy(clip_end) THEN BoundsNone
     ELSE bounds_from(video_start, clip_start, clip_end)

\* get_data, lines 147-151: the keys start_s and end_s are set only when not None
with_bounds(simple_clip, b) ==
  [simple_clip EXCEPT
     !.start_s = IF ~IsNone(b.start_s) THEN b.start_s ELSE Absent(0),
     !.end_s = IF ~IsNone(b.end_s) THEN b.end_s ELSE Absent(0)]

----------------------------------------------------------------------------
(* Strings as tuples of characters, and the two regular expressions *)
Digits == {"0", "1", "2", "3", "4", "5", "6", "7", "8", "9"}
DigitSeq == <<"0", "1", "2", "3", "4", "5", "6", "7", "8", "9">>
DigitVal(c) == (CHOOSE i \in 1..10 : DigitSeq[i] = c) - 1

\* s[i..i+2] are three digits (\d{3})
IsDigits3(s, i) ==
  /\ i >= 1 /\ i + 2 <= Len(s)
  /\ s[i] \in Digits /\ s[i+1] \in Digits /\ s[i+2] \in Digits
\* int() of the three digits
Int3(s, i) == 100 * DigitVal(s[i]) + 10 * DigitVal(s[i+1]) + DigitVal(s[i+2])

\* length of the longest run of characters other than "-" that starts at s[i]
RECURSIVE NonDashRun(_, _)
NonDashRun(s, i) ==
  IF i > Len(s) \/ s[i] = "-" THEN 0 ELSE 1 + NonDashRun(s, i + 1)

NoMatch == [ok |-> FALSE, tutorial |-> FALSE, user |-> <<>>, session |-> 0, clip |-> 0]

\* re.match(r"[^-]+-s(\d{3})-(\d{3})", clip_id): anchored at the start only
match_clip_id(clip_id) ==
  LET p == NonDashRun(clip_id, 1)
  IN IF /\ p >= 1
        /\ Len(clip_id) >= p + 9
        /\ clip_id[p+1] = "-"
        /\ clip_id[p+2] = "s"
        /\ IsDigits3(clip_id, p + 3)
        /\ clip_id[p+6] = "-"
        /\ IsDigits3(clip_id, p + 7)
     THEN [ok |-> TRUE, tutorial |-> FALSE, user |-> <<>>,
           session |-> Int3(clip_id, p + 3), clip |-> Int3(clip_id, p + 7)]
     ELSE NoMatch

TutorialPrefix == <<"t", "u", "t", "o", "r", "i", "a", "l", "-">>
Mp4Suffix == <<".", "m", "p", "4">>
StartsWith(s, pre) == Len(s) >= Len(pre) /\ SubSeq(s, 1, Len(pre)) = pre
EndsWith(s, suf) == Len(s) >= Len(suf) /\ SubSeq(s, Len(s) - Len(suf) + 1, Len(s)) = suf

\* position of the "-" that ends the [^-]+ segment following the "-" at f[q]
SegEnd(f, q) == q + 1 + NonDashRun(f, q + 1)

\* f[q..] matches -[^-]+-s(\d{3})-.+\.mp4$
FilenameTail(f, q) ==
  LET r == SegEnd(f, q)
  IN /\ q <= Len(f) /\ f[q] = "-"
     /\ r > q + 1
     /\ r + 5 <= Len(f)
     /\ f[r] = "-"
     /\ f[r+1] = "s"
     /\ IsDigits3(f, r + 2)
     /\ f[r+5] = "-"
     /\ Len(f) - (r + 5) >= 5
     /\ EndsWith(f, Mp4Suffix)

\* ends of group 2, (.+[^-]+), when it starts at f[start]: at least two
\* characters, the last one not "-", followed by a matching tail
Group2Ends(f, start) ==
  {q \in (start + 2)..Len(f) : f[q-1] # "-" /\ FilenameTail(f, q)}

SetMax(S) == CHOOSE x \in S : \A y \in S : y <= x

\* the match with group 2 starting at f[start]; greedy: the longest group 2
match_filename_from(f, start, tutorial) ==
  LET q == SetMax(Group2Ends(f, start))
      r == SegEnd(f, q)
  IN [ok |-> TRUE, tutorial |-> tutorial, user |-> SubSeq(f, start, q - 1),
      session |-> Int3(f, r + 2), clip |-> 0]

\* re.match(r"^(tutorial-)?(.+[^-]+)-[^-]+-s(\d{3})-.+\.mp4$", filename):
\* the optional group is tried first, then the match without it
match_filename(filename) ==
  IF StartsWith(filename, TutorialPrefix) /\ Group2Ends(filename, 10) # {}
  THEN match_filename_from(filename, 10, TRUE)
  ELSE IF Group2Ends(filename, 1) # {}
  THEN match_filename_from(filename, 1, FALSE)
  ELSE NoMatch

\* character order of the characters that occur in filenames (ASCII order)
Alphabet == <<"-", ".", "0", "1", "2", "3", "4", "5", "6", "7", "8", "9",
              "a", "d", "i", "l", "m", "o", "p", "r", "s", "t", "u", "v", "x">>
Ord(c) == CHOOSE i \in 1..Len(Alphabet) : Alphabet[i] = c

\* Python's str < str
RECURSIVE StrLess(_, _)
StrLess(a, b) ==
  IF b = <<>> THEN FALSE
  ELSE IF a = <<>> THEN TRUE
  ELSE IF Ord(Head(a)) # Ord(Head(b)) THEN Ord(Head(a)) < Ord(Head(b))
  ELSE StrLess(Tail(a), Tail(b))

----------------------------------------------------------------------------
(* Firestore documents and dump_4.get_data *)

\* a document's field map; other says that it has keys the code never reads
EmptyMap ==
  [clipId |-> Absent(<<>>), filename |-> Absent(<<>>),
   promptData |-> Absent([prompt |-> Absent("")]),
   valid |-> Absent(FALSE),
   videoStart |-> TsAbsent,
   startButtonDownTimestamp |-> TsAbsent, startButtonUpTimestamp |-> TsAbsent,
   restartButtonDownTimestamp |-> TsAbsent, swipeForwardTimestamp |-> TsAbsent,
   swipeBackTimestamp |-> TsAbsent,
   other |-> FALSE]

\* a document: id is the prefix of its id; nested says the fields sit under
\* the key "data" rather than at top level
Doc(id, nested, m) == [id |-> id, nested |-> nested, m |-> m]

\* bool(str or None)
StrTruthy(f) == f.k = "val" /\ f.v # <<>>

\* data = doc_dict.get("data") or doc_dict
doc_data(doc) ==
  IF doc.nested
  THEN IF doc.m # EmptyMap THEN doc.m ELSE [EmptyMap EXCEPT !.other = TRUE]
  ELSE doc.m

NoSummary ==
  [userId |-> <<>>, sessionIndex |-> Absent(0), clipIndex |-> Absent(0),
   filename |-> Absent(<<>>), promptText |-> Absent(""), valid |-> Absent(FALSE),
   tutorial |-> Absent(FALSE), start_s |-> Absent(0), end_s |-> Absent(0)]

Skip(why) == [out |-> "skip", why |-> why, summary |-> NoSummary]

\* prompt_data = data.get("promptData") or {};  prompt_data.get("prompt")
prompt_of(data) ==
  IF data.promptData.k = "val" THEN DictGet(data.promptData.v.prompt) ELSE Null("")

\* lines 134-151: the summary of a clip document that passed the checks
simple_clip_of(data, session_index, clip_index, m) ==
  LET b == get_clip_bounds_in_video(data)
      simple_clip ==
        [userId |-> m.user,
         sessionIndex |-> Val(session_index),
         clipIndex |-> Val(clip_index),
         filename |-> Val(data.filename.v),
         promptText |-> prompt_of(data),
         valid |-> DictGet(data.valid),
         tutorial |-> IF m.tutorial THEN Val(TRUE) ELSE Absent(FALSE),
         start_s |-> Absent(0), end_s |-> Absent(0)]
  IN IF b.err # "" THEN [out |-> b.err, why |-> "", summary |-> NoSummary]
     ELSE [out |-> "clip", why |-> "", summary |-> with_bounds(simple_clip, b)]

\* lines 96-153: one clipData- document: skipped, a clip, or an exception
clip_of_doc(doc) ==
  LET data == doc_data(doc)
      clip_id == DictGet(data.clipId)
      m1 == match_clip_id(clip_id.v)
      filename == DictGet(data.filename)
      m2 == match_filename(filename.v)
  IN IF data = EmptyMap THEN Skip("empty data")
     ELSE IF ~StrTruthy(clip_id) THEN Skip("no clipId")
     ELSE IF ~m1.ok THEN Skip("clipId format mismatch")
     ELSE IF ~StrTruthy(filename) THEN Skip("no filename")
     ELSE IF ~m2.ok THEN Skip("filename format mismatch")
     ELSE IF m1.session # m2.session THEN Skip("session index mismatch")
     ELSE simple_clip_of(data, m1.session, m1.clip, m2)

\* lines 93-162: the loop over the streamed documents
RECURSIVE get_data_loop(_, _, _)
get_data_loop(docs, clips, sessions) ==
  IF docs = <<>> THEN [err |-> "", clips |-> clips, sessions |-> sessions]
  ELSE LET doc == Head(docs)
       IN IF doc.id = "clipData-"
          THEN LET r == clip_of_doc(doc)
               IN IF r.out = "skip" THEN get_data_loop(Tail(docs), clips, sessions)
                  ELSE IF r.out = "clip"
                  THEN get_data_loop(Tail(docs),
                         Append(clips, [summary |-> r.summary, full |-> doc]), sessions)
                  ELSE [err |-> r.out, clips |-> <<>>, sessions |-> <<>>]
          ELSE IF doc.id = "sessionData-"
          THEN LET data == doc_data(doc)
               IN IF data # EmptyMap
                  THEN get_data_loop(Tail(docs), clips, Append(sessions, data))
                  ELSE get_data_loop(Tail(docs), clips, sessions)
          ELSE get_data_loop(Tail(docs), clips, sessions)

\* get_data(username), given the documents the collection streams
get_data(docs) == get_data_loop(docs, <<>>, <<>>)

----------------------------------------------------------------------------
(* Sorting: list.sort / sorted are stable *)

\* the stable sort of seq, where less[i][j] says that the key of seq[i] is
\* smaller than the key of seq[j]: seq[i] lands after the elements that are
\* smaller, and after the equal ones before it
SortBy(seq, less) ==
  LET n == Len(seq)
      pos(i) == 1 + Cardinality({j \in 1..n :
                      \/ less[j][i]
                      \/ (~less[i][j] /\ j < i)})
  IN [p \in 1..n |-> seq[CHOOSE i \in 1..n : pos(i) = p]]

\* Python truthiness of an optional bool
BoolTruthy(f) == f.k = "val" /\ f.v = TRUE

----------------------------------------------------------------------------
(* verify_clips.py *)
HALF_SECOND == 5000
ONE_SECOND == 10000
TWENTY_SECONDS == 200000

NA == <<"N", "/", "A">>

EmptyResults ==
  [high_confidence |-> <<>>, medium_confidence |-> <<>>, low_confidence |-> <<>>,
   invalid |-> <<>>, incomplete |-> <<>>]

\* lines 37-58: the fields read from a summary.  session stands for the
\* string f"s{session:03d}"; err is the TypeError of formatting None
clip_info_of(summary) ==
  LET prompt == DictGetDefault(summary.promptText, "N/A")
      valid == DictGetDefault(summary.valid, FALSE)
      start_s == DictGet(summary.start_s)
      end_s == DictGet(summary.end_s)
      filename == DictGetDefault(summary.filename, NA)
      session == DictGetDefault(summary.sessionIndex, 0)
      duration == IF ~IsNone(start_s) /\ ~IsNone(end_s)
                  THEN Val(end_s.v - start_s.v) ELSE Null(0)
  IN [err |-> IF IsNone(session) THEN "TypeError" ELSE "",
      prompt |-> prompt, session |-> session.v, filename |-> filename,
      valid |-> valid, start_s |-> start_s, end_s |-> end_s,
      duration |-> duration, issues |-> <<>>]

duration_bucket_Inclusive(duration) ==
  IF duration <= HALF_SECOND THEN "low_confidence"
  ELSE IF duration >= TWENTY_SECONDS THEN "medium_confidence"
  ELSE IF duration <= ONE_SECOND THEN "medium_confidence"
  ELSE "high_confidence"

\* lines 71-82: the tier of a duration
duration_bucket(duration) ==
  IF duration < HALF_SECOND THEN "low_confidence"
  ELSE IF duration > TWENTY_SECONDS THEN "medium_confidence"
  ELSE IF duration < ONE_SECOND THEN "medium_confidence"
  ELSE "high_confidence"

duration_issue(duration) ==
  IF duration < HALF_SECOND THEN "Too short"
  ELSE IF duration > TWENTY_SECONDS THEN "Unusually long"
  ELSE IF duration < ONE_SECOND THEN "Very short"
  ELSE "Good duration"

bucket_of_IncompleteFirst(clip_info) ==
  IF IsNone(clip_info.start_s) \/ IsNone(clip_info.end_s)
     \/ clip_info.prompt = Val("N/A") THEN "incomplete"
  ELSE IF ~BoolTruthy(clip_info.valid) THEN "invalid"
  ELSE duration_bucket(clip_info.duration.v)

\* lines 60-84: the bucket a record is appended to
bucket_of(clip_info) ==
  IF ~BoolTruthy(clip_info.valid) THEN "invalid"
  ELSE IF IsNone(clip_info.start_s) \/ IsNone(clip_info.end_s)
          \/ clip_info.prompt = Val("N/A") THEN "incomplete"
  ELSE IF ~IsNone(clip_info.duration) THEN duration_bucket(clip_info.duration.v)
  ELSE "low_confidence"

issue_of(clip_info) ==
  IF ~BoolTruthy(clip_info.valid) THEN <<"User marked as INVALID">>
  ELSE IF IsNone(clip_info.start_s) \/ IsNone(clip_info.end_s)
          \/ clip_info.prompt = Val("N/A") THEN <<"Missing critical data">>
  ELSE IF ~IsNone(clip_info.duration) THEN <<duration_issue(clip_info.duration.v)>>
  ELSE <<>>

\* results[bucket].append(clip_info)
AppendTo(results, bucket, clip_info) ==
  [results EXCEPT ![bucket] = Append(@, clip_info)]

classify_step_Twice(results, clip_info) ==
  LET r == AppendTo(results, bucket_of(clip_info),
                    [clip_info EXCEPT !.issues = issue_of(clip_info)])
  IN IF ~BoolTruthy(clip_info.valid)
        /\ (IsNone(clip_info.start_s) \/ IsNone(clip_info.end_s))
     THEN AppendTo(r, "incomplete", [clip_info EXCEPT !.issues = issue_of(clip_info)])
     ELSE r

\* lines 60-84 for one record
classify_step(results, clip_info) ==
  AppendTo(results, bucket_of(clip_info),
           [clip_info EXCEPT !.issues = issue_of(clip_info)])

\* lines 32-84: the loop over the clips of the dump
RECURSIVE classify_loop(_, _)
classify_loop(clips, results) ==
  IF clips = <<>> THEN [err |-> "", results |-> results]
  ELSE LET clip_info == clip_info_of(Head(clips).summary)
       IN IF clip_info.err # "" THEN [err |-> clip_info.err, results |-> results]
          ELSE classify_loop(Tail(clips), classify_step(results, clip_info))

\* f"{clip['prompt']:<15}" raises TypeError when the prompt is None
PromptFormats(clip_info) == clip_info.prompt.k = "val"
AllFormat(seq) == \A i \in 1..Len(seq) : PromptFormats(seq[i])

\* lines 104-123: the review and invalid listings
listing_error(results) ==
  IF ~AllFormat(results.medium_confidence \o results.low_confidence) THEN "TypeError"
  ELSE IF ~AllFormat(results.invalid) THEN "TypeError"
  ELSE ""

BucketNames ==
  <<"high_confidence", "medium_confidence", "low_confidence", "invalid", "incomplete">>
Upper(name) ==
  CASE name = "high_confidence" -> "HIGH_CONFIDENCE"
    [] name = "medium_confidence" -> "MEDIUM_CONFIDENCE"
    [] name = "low_confidence" -> "LOW_CONFIDENCE"
    [] name = "invalid" -> "INVALID"
    [] name = "incomplete" -> "INCOMPLETE"

\* f"{x:.2f}" of a time, as hundredths of a second (a tie rounds away from 0
\* here; Python rounds the binary value)
Hundredths(d) == IF d >= 0 THEN (d + 50) \div 100 ELSE 0 - ((50 - d) \div 100)

\* lines 148-156: the row of one clip_info
verification_row(confidence, clip_info) ==
  [confidence |-> Upper(confidence),
   prompt |-> clip_info.prompt,
   session |-> clip_info.session,
   duration_s |-> IF ~IsNone(clip_info.duration) /\ clip_info.duration.v # 0
                  THEN Val(Hundredths(clip_info.duration.v)) ELSE Null(0),
   valid_flag |-> IF BoolTruthy(clip_info.valid) THEN "YES" ELSE "NO",
   issues |-> clip_info.issues,
   filename |-> clip_info.filename]

RowsOf(confidence, infos) ==
  [i \in 1..Len(infos) |-> verification_row(confidence, infos[i])]

RECURSIVE RowsFrom(_, _)
RowsFrom(results, b) ==
  IF b > Len(BucketNames) THEN <<>>
  ELSE RowsOf(BucketNames[b], results[BucketNames[b]]) \o RowsFrom(results, b + 1)

\* create_verification_csv: the data rows, bucket by bucket
create_verification_csv(results) == RowsFrom(results, 1)

calculate_overall_confidence_ValidOnly(results, total) ==
  LET high == Len(results.high_confidence)
      medium == Len(results.medium_confidence)
      low == Len(results.low_confidence)
      counted == total - Len(results.invalid) - Len(results.incomplete)
  IN IF counted = 0 THEN 0
     ELSE (2 * 100 * (10 * high + 7 * medium + 3 * low) + counted) \div (2 * counted)

\* calculate_overall_confidence: the score as printed with one decimal, in
\* tenths of a percent.  (high*1.0 + medium*0.7 + low*0.3) / total * 100 is
\* (10 high + 7 medium + 3 low) * 100 / total tenths, rounded to the nearest;
\* a tie needs total to be a multiple of 8
calculate_overall_confidence(results, total) ==
  LET high == Len(results.high_confidence)
      medium == Len(results.medium_confidence)
      low == Len(results.low_confidence)
  IN (2 * 100 * (10 * high + 7 * medium + 3 * low) + total) \div (2 * total)

VerifyNotRun ==
  [run |-> FALSE, err |-> "", results |-> EmptyResults, total |-> 0,
   csv_written |-> FALSE, csv |-> <<>>, score |-> Null(0)]

\* verify_clip_quality(json_file): the buckets, then the exception that ends
\* the run or the csv and the score
verify_clip_quality(clips) ==
  LET c == classify_loop(clips, EmptyResults)
      total == Len(clips)
      err == IF c.err # "" THEN c.err
             ELSE IF total = 0 THEN "ZeroDivisionError"
             ELSE listing_error(c.results)
  IN IF err # ""
     THEN [run |-> TRUE, err |-> err, results |-> c.results, total |-> total,
           csv_written |-> FALSE, csv |-> <<>>, score |-> Null(0)]
     ELSE [run |-> TRUE, err |-> "", results |-> c.results, total |-> total,
           csv_written |-> TRUE, csv |-> create_verification_csv(c.results),
           score |-> Val(calculate_overall_confidence(c.results, total))]

----------------------------------------------------------------------------
(* check.py *)

\* lines 28-38: the list a summary is appended to
analysis_status(summary) ==
  LET has_timestamps == HasKey(summary.start_s) /\ HasKey(summary.end_s)
      has_prompt == HasKey(summary.promptText)
      is_valid == DictGetDefault(summary.valid, FALSE)
  IN IF ~has_timestamps \/ ~has_prompt THEN "MISSING_DATA"
     ELSE IF BoolTruthy(is_valid) THEN "VALID"
     ELSE "INVALID"

SummariesOf(clips) == [i \in 1..Len(clips) |-> clips[i].summary]
WithStatus(clips, status) ==
  SelectSeq(SummariesOf(clips), LAMBDA x : analysis_status(x) = status)

\* sorted(..., key=(sessionIndex, clipIndex)) with the defaults 0
SessionClipLess(a, b) ==
  LET sa == DictGetDefault(a.sessionIndex, 0).v
      sb == DictGetDefault(b.sessionIndex, 0).v
      ca == DictGetDefault(a.clipIndex, 0).v
      cb == DictGetDefault(b.clipIndex, 0).v
  IN sa < sb \/ (sa = sb /\ ca < cb)

analysis_row(status, summary) == [status |-> status, summary |-> summary]

\* create_full_report: valid rows, invalid rows (both sorted), missing-data rows
create_full_report(valid_clips, invalid_clips, missing_clips) ==
  LET v == SortBy(valid_clips,
              [a \in DOMAIN valid_clips |->
                [b \in DOMAIN valid_clips |->
                  SessionClipLess(valid_clips[a], valid_clips[b])]])
      i == SortBy(invalid_clips,
              [a \in DOMAIN invalid_clips |->
                [b \in DOMAIN invalid_clips |->
                  SessionClipLess(invalid_clips[a], invalid_clips[b])]])
  IN [j \in 1..Len(v) |-> analysis_row("VALID", v[j])]
     \o [j \in 1..Len(i) |-> analysis_row("INVALID", i[j])]
     \o [j \in 1..Len(missing_clips) |-> analysis_row("MISSING_DATA", missing_clips[j])]

\* print_prompt_statistics: sorted() and f"{prompt:<20}" raise TypeError on a
\* prompt that is None
prompt_statistics_error(valid_clips, invalid_clips) ==
  IF \E j \in 1..Len(valid_clips) : valid_clips[j].promptText.k = "null" THEN "TypeError"
  ELSE IF \E j \in 1..Len(invalid_clips) : invalid_clips[j].promptText.k = "null"
  THEN "TypeError"
  ELSE ""

AnalysisNotRun ==
  [run |-> FALSE, err |-> "", valid_clips |-> <<>>, invalid_clips |-> <<>>,
   missing_data_clips |-> <<>>, csv_written |-> FALSE, csv |-> <<>>]

\* analyze_clips(json_file)
analyze_clips(clips) ==
  LET valid_clips == WithStatus(clips, "VALID")
      invalid_clips == WithStatus(clips, "INVALID")
      missing_data_clips == WithStatus(clips, "MISSING_DATA")
  IN [run |-> TRUE,
      err |-> prompt_statistics_error(valid_clips, invalid_clips),
      valid_clips |-> valid_clips,
      invalid_clips |-> invalid_clips,
      missing_data_clips |-> missing_data_clips,
      csv_written |-> TRUE,
      csv |-> create_full_report(valid_clips, invalid_clips, missing_data_clips)]

----------------------------------------------------------------------------
(* video_2.py: analyze_session_gaps *)

\* lines 155-167: the clips that have a session and a clip index
Grouped(clips) ==
  SelectSeq(SummariesOf(clips),
            LAMBDA x : ~IsNone(DictGet(x.sessionIndex)) /\ ~IsNone(DictGet(x.clipIndex)))

\* the keys of the defaultdict sessions
SessionKeys(clips) ==
  {Grouped(clips)[i].sessionIndex.v : i \in 1..Len(Grouped(clips))}

\* sessions[session]: the clip indices of the group, in the order met
SessionIndices(clips, session) ==
  LET g == SelectSeq(Grouped(clips), LAMBDA x : x.sessionIndex.v = session)
  IN [i \in 1..Len(g) |-> g[i].clipIndex.v]

SeqRange(seq) == {seq[i] : i \in 1..Len(seq)}
SetMin(S) == CHOOSE x \in S : \A y \in S : x <= y

\* sorted(a set of integers)
RECURSIVE SortedSeq(_)
SortedSeq(S) ==
  IF S = {} THEN <<>> ELSE <<SetMin(S)>> \o SortedSeq(S \ {SetMin(S)})

missing_indices_FromZero(indices) ==
  0..SetMax(SeqRange(indices)) \ SeqRange(indices)

\* lines 179-180: set(range(min, max + 1)) - set(indices)
missing_indices(indices) ==
  SetMin(SeqRange(indices))..SetMax(SeqRange(indices)) \ SeqRange(indices)

\* lines 171-188: what is printed for one session that has a gap
gap_entry(session, indices) ==
  [session |-> session,
   lo |-> SetMin(SeqRange(indices)),
   hi |-> SetMax(SeqRange(indices)),
   missing |-> SortedSeq(missing_indices(indices))]

\* the sessions in ascending order, each with its gaps if it has any
RECURSIVE gap_report(_, _)
gap_report(clips, keys) ==
  IF keys = <<>> THEN <<>>
  ELSE LET indices == SessionIndices(clips, Head(keys))
       IN IF missing_indices(indices) # {}
          THEN <<gap_entry(Head(keys), indices)>> \o gap_report(clips, Tail(keys))
          ELSE gap_report(clips, Tail(keys))

\* analyze_session_gaps(clips): the gap reports printed, and found_gaps
analyze_session_gaps(clips) ==
  LET report == gap_report(clips, SortedSeq(SessionKeys(clips)))
  IN [report |-> report, found_gaps |-> report # <<>>]

----------------------------------------------------------------------------
(* video_2.detect_missing_prompts *)

\* A text (a prompt, a line of the reference file) is a tuple of tokens: a
\* blank " ", a "#", or a word.  promptText p of a summary is the text <<p>>,
\* the empty string is <<>>.
TextOf(p) == IF p = "" THEN <<>> ELSE <<p>>

\* str.strip()
RECURSIVE lstrip(_)
lstrip(text) ==
  IF text # <<>> /\ Head(text) = " " THEN lstrip(Tail(text)) ELSE text
RECURSIVE rstrip(_)
rstrip(text) ==
  IF text # <<>> /\ text[Len(text)] = " "
  THEN rstrip(SubSeq(text, 1, Len(text) - 1)) ELSE text
strip(text) == rstrip(lstrip(text))

\* the order of str: tokens by their first character, texts lexicographically
TokenRank(tok) ==
  CASE tok = " " -> 0 [] tok = "#" -> 1 [] tok = "Poor" -> 2 [] tok = "Rich" -> 3
    [] OTHER -> 4
RECURSIVE TextLess(_, _)
TextLess(a, b) ==
  IF b = <<>> THEN FALSE
  ELSE IF a = <<>> THEN TRUE
  ELSE IF Head(a) # Head(b) THEN TokenRank(Head(a)) < TokenRank(Head(b))
  ELSE TextLess(Tail(a), Tail(b))

\* sorted(S) for a set of texts
SortedTexts(S) ==
  [p \in 1..Cardinality(S) |->
     CHOOSE x \in S : Cardinality({y \in S : TextLess(y, x)}) = p - 1]

\* lines 36-47: the records whose promptText is truthy, and the three sets
Prompted(clips) ==
  {j \in 1..Len(clips) :
     /\ clips[j].summary.promptText.k = "val"
     /\ clips[j].summary.promptText.v # ""}
attempted_prompts(clips) ==
  {TextOf(clips[j].summary.promptText.v) : j \in Prompted(clips)}
completed_prompts(clips) ==
  {TextOf(clips[j].summary.promptText.v) :
     j \in {i \in Prompted(clips) : BoolTruthy(DictGet(clips[i].summary.valid))}}
rejected_prompts(clips) ==
  {TextOf(clips[j].summary.promptText.v) :
     j \in {i \in Prompted(clips) : ~BoolTruthy(DictGet(clips[i].summary.valid))}}

\* lines 55-62: the reference file, when there is one to open
NoFile == [found |-> FALSE, lines |-> <<>>]
File(lines) == [found |-> TRUE, lines |-> lines]
NoExpected == [loaded |-> FALSE, prompts |-> {}]
expected_prompts(file) ==
  IF file.found
  THEN [loaded |-> TRUE,
        prompts |-> {strip(file.lines[i]) :
                       i \in {j \in 1..Len(file.lines) : strip(file.lines[j]) # <<>>}}]
  ELSE NoExpected

\* a prompt that was completed once counts as completed at the first try
category_of_CompletedWins(prompt, completed, rejected) ==
  IF prompt \in completed THEN "completed_first_try"
  ELSE IF prompt \in rejected THEN "never_accepted"
  ELSE "unknown"

\* lines 74-85
category_of(prompt, completed, rejected) ==
  IF prompt \in completed /\ prompt \notin rejected THEN "completed_first_try"
  ELSE IF prompt \in completed /\ prompt \in rejected THEN "completed_with_retries"
  ELSE IF prompt \in rejected /\ prompt \notin completed THEN "never_accepted"
  ELSE "unknown"

\* lines 73-91: one entry per attempted prompt, in sorted order
prompt_report_of(clips) ==
  LET attempted == SortedTexts(attempted_prompts(clips))
  IN [i \in 1..Len(attempted) |->
        [prompt |-> attempted[i],
         category |-> category_of(attempted[i], completed_prompts(clips),
                                  rejected_prompts(clips))]]

\* expected_prompts - attempted_prompts, where `if expected_prompts:` lets it
\* be computed (lines 98-99, 218-219)
missing_prompts(expected, attempted) ==
  IF expected.loaded /\ expected.prompts # {}
  THEN expected.prompts \ attempted
  ELSE {}

\* create_missing_prompts_csv: the rows under the header
\* prompt, status, category, notes
create_missing_prompts_csv(prompt_report, expected, attempted) ==
  LET missing == SortedTexts(missing_prompts(expected, attempted))
  IN prompt_report
     \o [i \in 1..Len(missing) |->
           [prompt |-> missing[i], category |-> "completely_skipped"]]

PromptsNotRun ==
  [run |-> FALSE, attempted |-> {}, completed |-> {}, rejected |-> {},
   expected |-> NoExpected, prompt_report |-> <<>>, skipped |-> <<>>,
   gaps |-> [report |-> <<>>, found_gaps |-> FALSE],
   csv_written |-> FALSE, csv |-> <<>>]

\* detect_missing_prompts(json_file, expected_prompts_file)
detect_missing_prompts(clips, file) ==
  LET attempted == attempted_prompts(clips)
      expected == expected_prompts(file)
      report == prompt_report_of(clips)
  IN [run |-> TRUE,
      attempted |-> attempted,
      completed |-> completed_prompts(clips),
      rejected |-> rejected_prompts(clips),
      expected |-> expected,
      prompt_report |-> report,
      skipped |-> SortedTexts(missing_prompts(expected, attempted)),
      gaps |-> analyze_session_gaps(clips),
      csv_written |-> TRUE,
      csv |-> create_missing_prompts_csv(report, expected, attempted)]

----------------------------------------------------------------------------
(* dump_4.main *)
Usernames == 1..MaxUsers

\* all_clips.sort(key=(filename, clipIndex))
FilenameClipLess(a, b) ==
  LET fa == DictGetDefault(a.summary.filename, <<>>).v
      fb == DictGetDefault(b.summary.filename, <<>>).v
      ca == DictGetDefault(a.summary.clipIndex, 0).v
      cb == DictGetDefault(b.summary.clipIndex, 0).v
  IN StrLess(fa, fb) \/ (fa = fb /\ ca < cb)

\* all_sessions.sort(key=filename)
SessionFilenameLess(a, b) ==
  StrLess(DictGetDefault(a.filename, <<>>).v, DictGetDefault(b.filename, <<>>).v)

\* lines 282-299: the csv has a row for each clip whose valid is truthy
dump_csv(clips) ==
  SelectSeq(SummariesOf(clips), LAMBDA x : BoolTruthy(DictGet(x.valid)))

NoDump == [written |-> FALSE, clips |-> <<>>, sessions |-> <<>>, csv |-> <<>>]
NoCall == [fn |-> "", arg |-> <<>>]
NoRet == [done |-> FALSE]

\* the batch takes the place of what was accumulated
extend_Replace(all, batch) == batch

\* all.extend(batch), lines 237-238
extend(all, batch) == all \o batch

\* get_data raises google.api_core.exceptions.RetryError, at any document of
\* the stream: main gives the user up and goes on
FetchRetryError_GiveUp ==
  /\ pc = "fetch"
  /\ retries' = IF retries < MaxRetries THEN retries + 1 ELSE retries
  /\ IF ui < MaxUsers THEN ui' = ui + 1 /\ pc' = "fetch"
                      ELSE ui' = ui /\ pc' = "sort_write"
  /\ UNCHANGED <<store, fetched, all_clips, all_sessions, dump, verify, analysis, prompts, call, ret>>

\* get_data raises google.api_core.exceptions.RetryError, at any document of
\* the stream: what it had collected is dropped with its frame, and main
\* goes round the while loop again
FetchRetryError ==
  /\ pc = "fetch"
  /\ retries' = IF retries < MaxRetries THEN retries + 1 ELSE retries
  /\ UNCHANGED <<store, fetched, pc, ui, all_clips, all_sessions, dump, verify, analysis, prompts, call, ret>>

\* get_data returns: the batch is added, main goes on to the next user
FetchReturn ==
  /\ pc = "fetch"
  /\ LET r == fetched[ui]
     IN /\ r.err = ""
        /\ all_clips' = extend(all_clips, r.clips)
        /\ all_sessions' = extend(all_sessions, r.sessions)
  /\ IF ui < MaxUsers THEN ui' = ui + 1 /\ pc' = "fetch"
                      ELSE ui' = ui /\ pc' = "sort_write"
  /\ UNCHANGED <<store, fetched, retries, dump, verify, analysis, prompts, call, ret>>

\* get_data raises an exception main does not catch
FetchRaise ==
  /\ pc = "fetch"
  /\ fetched[ui].err # ""
  /\ pc' = "crashed"
  /\ UNCHANGED <<store, fetched, ui, retries, all_clips, all_sessions, dump, verify, analysis, prompts, call, ret>>

\* lines 243-299: sort, write the json dump and the csv
SortAndWrite ==
  /\ pc = "sort_write"
  /\ all_clips' = SortBy(all_clips,
                     [a \in DOMAIN all_clips |->
                       [b \in DOMAIN all_clips |->
                         FilenameClipLess(all_clips[a], all_clips[b])]])
  /\ all_sessions' = SortBy(all_sessions,
                        [a \in DOMAIN all_sessions |->
                          [b \in DOMAIN all_sessions |->
                            SessionFilenameLess(all_sessions[a], all_sessions[b])]])
  /\ dump' = [written |-> TRUE, clips |-> all_clips', sessions |-> all_sessions',
              csv |-> dump_csv(all_clips')]
  /\ pc' = "done"
  /\ UNCHANGED <<store, fetched, ui, retries, verify, analysis, prompts, call, ret>>

\* verify_clips.py run on the dump
VerifyClipQuality ==
  /\ dump.written
  /\ ~verify.run
  /\ verify' = verify_clip_quality(dump.clips)
  /\ UNCHANGED <<store, fetched, pc, ui, retries, all_clips, all_sessions, dump, analysis, prompts, call, ret>>

\* check.py run on the dump
AnalyzeClips ==
  /\ dump.written
  /\ ~analysis.run
  /\ analysis' = analyze_clips(dump.clips)
  /\ UNCHANGED <<store, fetched, pc, ui, retries, all_clips, all_sessions, dump, verify, prompts, call, ret>>

\* the lines a reference prompts file is made of: a prompt, a prompt with
\* blanks around it, an empty line, a line of blanks, a comment
RefLines ==
  { <<"Rich">>, <<" ", "Poor", " ">>, <<>>, <<" ">>, <<"#", " ", "Rich">> }
RefFiles == {NoFile} \cup {File(lines) : lines \in UNION {[1..k -> RefLines] : k \in 0..MaxLines}}

\* video_2.py run on the dump, with some reference file or none
DetectMissingPrompts ==
  /\ dump.written
  /\ ~prompts.run
  /\ \E file \in RefFiles : prompts' = detect_missing_prompts(dump.clips, file)
  /\ UNCHANGED <<store, fetched, pc, ui, retries, all_clips, all_sessions, dump, verify, analysis, call, ret>>

----------------------------------------------------------------------------
(* The documents the store is drawn from: one well-formed clip document    *)
(* and its variations, one field at a time                                 *)
ClipId(session, clip) == <<"a", "-", "s">> \o session \o <<"-">> \o clip
Filename(user, session) ==
  user \o <<"-", "d", "-", "s">> \o session \o <<"-", "x">> \o Mp4Suffix

GoodMap ==
  [EmptyMap EXCEPT
     !.clipId = Val(ClipId(<<"0", "0", "1">>, <<"0", "0", "2">>)),
     !.filename = Val(Filename(<<"u", "u">>, <<"0", "0", "1">>)),
     !.promptData = Val([prompt |-> Val("Rich")]),
     !.valid = Val(TRUE),
     !.videoStart = Ts("Z", 0),
     !.startButtonDownTimestamp = Ts("Z", 10000),
     !.swipeForwardTimestamp = Ts("Z", 30000)]

NoPrompt == Absent([prompt |-> Absent("")])

ClipMaps ==
  { GoodMap,
    [GoodMap EXCEPT !.valid = Val(FALSE)],
    [GoodMap EXCEPT !.promptData = NoPrompt],
    [GoodMap EXCEPT !.promptData = NoPrompt, !.valid = Val(FALSE)],
    [GoodMap EXCEPT !.videoStart = TsAbsent],
    [GoodMap EXCEPT !.swipeForwardTimestamp = Ts("bad", 0)],
    [GoodMap EXCEPT !.clipId = Absent(<<>>)],
    [GoodMap EXCEPT !.clipId = Val(ClipId(<<"0", "1">>, <<"0", "0", "2">>))],
    [GoodMap EXCEPT !.clipId = Val(ClipId(<<"0", "0", "1">>, <<"0", "0", "2", "3">>))],
    [GoodMap EXCEPT !.filename = Absent(<<>>)],
    [GoodMap EXCEPT !.filename = Val(<<"u", "-", "s", "0", "0", "1", "-", "x">> \o Mp4Suffix)],
    [GoodMap EXCEPT !.filename = Val(Filename(<<"u", "u">>, <<"0", "0", "2">>))],
    [GoodMap EXCEPT !.filename = Val(TutorialPrefix \o Filename(<<"u", "u">>, <<"0", "0", "1">>))],
    [GoodMap EXCEPT !.clipId = Val(ClipId(<<"0", "0", "1">>, <<"0", "0", "4">>)),
                    !.filename = Val(Filename(<<"v", "v">>, <<"0", "0", "1">>))] }

DocSet ==
  {Doc("clipData-", TRUE, m) : m \in ClipMaps}
  \cup { Doc("clipData-", FALSE, EmptyMap),
         Doc("sessionData-", TRUE, GoodMap) }

SeqsUpTo(S, n) == UNION {[1..k -> S] : k \in 0..n}

\* the ways to cut a batch of n documents into one run per user: cut[u] is
\* the number of documents of the users before u
Cuts(n) ==
  {cut \in [1..(MaxUsers + 1) -> 0..n] :
     /\ cut[1] = 0 /\ cut[MaxUsers + 1] = n
     /\ \A u \in Usernames : cut[u] <= cut[u + 1]}

NotStarted(st) ==
  /\ store = st
  /\ fetched = [u \in Usernames |-> get_data(st[u])]
  /\ pc = "fetch"
  /\ ui = 1
  /\ retries = 0
  /\ all_clips = <<>>
  /\ all_sessions = <<>>
  /\ dump = NoDump
  /\ verify = VerifyNotRun
  /\ analysis = AnalysisNotRun
  /\ prompts = PromptsNotRun
  /\ call = NoCall
  /\ ret = NoRet

\* main starts with nothing fetched; the store holds at most MaxDocs documents
InitFrom(docs) ==
  \E batch \in SeqsUpTo(docs, MaxDocs) :
    \E cut \in Cuts(Len(batch)) :
      NotStarted([u \in Usernames |-> SubSeq(batch, cut[u] + 1, cut[u + 1])])

Init == InitFrom(DocSet)

Next ==
  \/ FetchRetryError
  \/ FetchReturn
  \/ FetchRaise
  \/ SortAndWrite
  \/ VerifyClipQuality
  \/ AnalyzeClips
  \/ DetectMissingPrompts

Spec == Init /\ [][Next]_vars

\* main alone, on a store of fewer kinds of documents: a well-formed clip, a
\* clip of another user's video, a clip with an unparseable timestamp, a
\* clip without clipId, and a session document
MainDocSet ==
  { Doc("clipData-", TRUE, GoodMap),
    Doc("clipData-", TRUE,
        [GoodMap EXCEPT !.clipId = Val(ClipId(<<"0", "0", "1">>, <<"0", "0", "4">>)),
                        !.filename = Val(Filename(<<"v", "v">>, <<"0", "0", "1">>))]),
    Doc("clipData-", TRUE, [GoodMap EXCEPT !.swipeForwardTimestamp = Ts("bad", 0)]),
    Doc("clipData-", TRUE, [GoodMap EXCEPT !.clipId = Absent(<<>>)]),
    Doc("sessionData-", TRUE, GoodMap) }

InitMain == InitFrom(MainDocSet)

NextMain ==
  \/ FetchRetryError
  \/ FetchReturn
  \/ FetchRaise
  \/ SortAndWrite

SpecMain == InitMain /\ [][NextMain]_vars

\* main where every fetch that can return does return after finitely many
\* RetryErrors, and the statements of main are executed one after the other
SpecMainFair ==
  /\ InitMain /\ [][NextMain]_vars
  /\ WF_vars(FetchReturn) /\ WF_vars(FetchRaise) /\ WF_vars(SortAndWrite)

----------------------------------------------------------------------------
(* Functions called on their own *)

\* main does not run; there is the dump file d, and the pending call c
Standalone(d, c) ==
  /\ store = [u \in Usernames |-> <<>>]
  /\ fetched = [u \in Usernames |-> get_data(<<>>)]
  /\ pc = "off"
  /\ ui = 1
  /\ retries = 0
  /\ all_clips = <<>>
  /\ all_sessions = <<>>
  /\ dump = d
  /\ verify = VerifyNotRun
  /\ analysis = AnalysisNotRun
  /\ prompts = PromptsNotRun
  /\ call = c
  /\ ret = NoRet

Called(fn, arg) == Standalone(NoDump, [fn |-> fn, arg |-> arg])

\* get_clip_bounds_in_video on every combination of the six timestamps
EventValues == {TsAbsent, TsNull, Ts("bad", 0)} \cup {Ts("Z", t) : t \in 0..MaxTime}
VideoStartValues ==
  {TsAbsent, TsNull, TsEmpty, Ts("Z", 0), Ts("offset", 1), Ts("naive", 0), Ts("bad", 0)}

ClipDataSet ==
  {[GoodMap EXCEPT !.videoStart = vs,
                   !.startButtonDownTimestamp = sd,
                   !.startButtonUpTimestamp = su,
                   !.restartButtonDownTimestamp = rd,
                   !.swipeForwardTimestamp = sf,
                   !.swipeBackTimestamp = sb] :
     vs \in VideoStartValues, sd \in EventValues, su \in EventValues,
     rd \in EventValues, sf \in EventValues, sb \in EventValues}

InitBounds == \E clip_data \in ClipDataSet : Called("get_clip_bounds_in_video", clip_data)

\* the call, and get_data on the one clip document that holds clip_data
CallBounds ==
  /\ call.fn = "get_clip_bounds_in_video"
  /\ ~ret.done
  /\ ret' = [done |-> TRUE,
             bounds |-> get_clip_bounds_in_video(call.arg),
             data |-> get_data(<<Doc("clipData-", TRUE, call.arg)>>)]
  /\ UNCHANGED <<store, fetched, pc, ui, retries, all_clips, all_sessions, dump, verify, analysis, prompts, call>>

SpecBounds == InitBounds /\ [][CallBounds]_vars

\* analyze_session_gaps on clips of two sessions: any clip index in the
\* first, two indices far apart in the second, a clip without session, and
\* a clip of another user in the first session
GapSummary(session, clip) ==
  [NoSummary EXCEPT !.userId = <<"u", "u">>, !.sessionIndex = session, !.clipIndex = clip]
OtherUserSummary(session, clip) ==
  [NoSummary EXCEPT !.userId = <<"v", "v">>, !.sessionIndex = session, !.clipIndex = clip]
GapClipSet ==
  {[summary |-> GapSummary(Val(session), Val(clip)), full |-> Doc("clipData-", FALSE, EmptyMap)] :
     session \in {1}, clip \in 0..MaxClipIndex}
  \cup {[summary |-> GapSummary(Val(2), Val(clip)), full |-> Doc("clipData-", FALSE, EmptyMap)] :
     clip \in {1, MaxClipIndex}}
  \cup {[summary |-> GapSummary(Null(0), Val(0)), full |-> Doc("clipData-", FALSE, EmptyMap)]}
  \cup {[summary |-> OtherUserSummary(Val(1), Val(2)), full |-> Doc("clipData-", FALSE, EmptyMap)]}

InitGaps == \E clips \in SeqsUpTo(GapClipSet, MaxGapClips) : Called("analyze_session_gaps", clips)

CallGaps ==
  /\ call.fn = "analyze_session_gaps"
  /\ ~ret.done
  /\ ret' = [done |-> TRUE, gaps |-> analyze_session_gaps(call.arg)]
  /\ UNCHANGED <<store, fetched, pc, ui, retries, all_clips, all_sessions, dump, verify, analysis, prompts, call>>

SpecGaps == InitGaps /\ [][CallGaps]_vars

\* verify_clips.py on a dump that main did not write: Clip Records with any
\* valid flag, prompt and bounds
Rec(valid, prompt, start_s, end_s) ==
  [summary |->
     [NoSummary EXCEPT !.userId = <<"u", "u">>, !.sessionIndex = Val(1),
                       !.clipIndex = Val(0), !.filename = GoodMap.filename,
                       !.promptText = prompt, !.valid = valid,
                       !.start_s = start_s, !.end_s = end_s],
   full |-> Doc("clipData-", FALSE, EmptyMap)]

Durations ==
  {0 - 1, HALF_SECOND - 1, HALF_SECOND, ONE_SECOND - 1, ONE_SECOND,
   TWENTY_SECONDS, TWENTY_SECONDS + 1}

RecSet ==
  {Rec(Val(TRUE), Val("Rich"), Val(ONE_SECOND), Val(ONE_SECOND + d)) : d \in Durations}
  \cup {Rec(v, Val("Rich"), Val(0), Val(2 * ONE_SECOND)) :
          v \in {Val(TRUE), Val(FALSE), Null(FALSE), Absent(FALSE)}}
  \cup {Rec(Val(TRUE), p, Val(0), Val(2 * ONE_SECOND)) : p \in {Null(""), Absent("")}}
  \cup {Rec(Val(TRUE), Val("Rich"), b[1], b[2]) :
          b \in {<<Absent(0), Absent(0)>>, <<Val(0), Absent(0)>>, <<Null(0), Val(ONE_SECOND)>>}}
  \cup { Rec(Val(FALSE), Null(""), Val(0), Val(2 * ONE_SECOND)),
         Rec(Val(FALSE), Val("Rich"), Absent(0), Absent(0)),
         Rec(Val(FALSE), Absent(""), Val(0), Absent(0)),
         Rec(Val(TRUE), Null(""), Val(0), Val(HALF_SECOND - 1)) }

InitVerify ==
  \E clips \in SeqsUpTo(RecSet, MaxClips) :
    Standalone([written |-> TRUE, clips |-> clips, sessions |-> <<>>,
                csv |-> dump_csv(clips)], NoCall)

SpecVerify == InitVerify /\ [][VerifyClipQuality]_vars

\* video_2.py on a dump that main did not write: records with any prompt
\* and valid flag
PromptRec(prompt, valid) ==
  [summary |->
     [NoSummary EXCEPT !.userId = <<"u", "u">>, !.sessionIndex = Val(1),
                       !.clipIndex = Val(0), !.promptText = prompt, !.valid = valid],
   full |-> Doc("clipData-", FALSE, EmptyMap)]

PromptRecSet ==
  {PromptRec(prompt, valid) :
     prompt \in {Val("Rich"), Val("Poor"), Val(""), Null("")},
     valid \in {Val(TRUE), Val(FALSE), Absent(FALSE)}}

InitPrompts ==
  \E clips \in SeqsUpTo(PromptRecSet, MaxPromptClips) :
    Standalone([written |-> TRUE, clips |-> clips, sessions |-> <<>>,
                csv |-> dump_csv(clips)], NoCall)

SpecPrompts == InitPrompts /\ [][DetectMissingPrompts]_vars

----------------------------------------------------------------------------
(* Properties of verify_clips.py, under SpecVerify *)

BucketSet == {"high_confidence", "medium_confidence", "low_confidence", "invalid", "incomplete"}

\* the clip_info of summary is an entry of the bucket
InfoIn(bucket, summary) ==
  \E j \in 1..Len(verify.results[bucket]) :
    [verify.results[bucket][j] EXCEPT !.issues = <<>>] = clip_info_of(summary)

DumpSummaries == {dump.clips[i].summary : i \in 1..Len(dump.clips)}
FalsyValid(summary) == ~BoolTruthy(DictGet(summary.valid))
NumFalsyValid == Cardinality({i \in 1..Len(dump.clips) : FalsyValid(dump.clips[i].summary)})

\* C1: a record whose valid flag is false, null or absent is in the bucket
\* invalid and in no other bucket, whatever its bounds and prompt; the
\* buckets that feed the score hold only records whose valid flag is true
C1_InvalidNeverInTier ==
  verify.run =>
    /\ \A summary \in DumpSummaries :
         FalsyValid(summary) =>
           /\ InfoIn("invalid", summary)
           /\ \A b \in BucketSet \ {"invalid"} : ~InfoIn(b, summary)
    /\ Len(verify.results.invalid) = NumFalsyValid
    /\ \A b \in {"high_confidence", "medium_confidence", "low_confidence"} :
         \A j \in 1..Len(verify.results[b]) : BoolTruthy(verify.results[b][j].valid)

C1_Witness ==
  /\ verify.run
  /\ \E j \in 1..Len(verify.results.invalid) :
       /\ verify.results.invalid[j].valid.k = "null"
       /\ ~IsNone(verify.results.invalid[j].duration)
  /\ \E j \in 1..Len(verify.results.invalid) :
       /\ verify.results.invalid[j].valid = Val(FALSE)
       /\ IsNone(verify.results.invalid[j].start_s)

\* the tier the claim gives to a duration
ClaimedTier(d) ==
  IF d < HALF_SECOND THEN "low_confidence"
  ELSE IF d < ONE_SECOND THEN "medium_confidence"
  ELSE IF d <= TWENTY_SECONDS THEN "high_confidence"
  ELSE "medium_confidence"

HasPromptAndBounds(summary) ==
  /\ summary.promptText.k = "val"
  /\ summary.start_s.k = "val"
  /\ summary.end_s.k = "val"

\* C3: a record with valid true, a prompt and both bounds is in the tier of
\* its duration end_s - start_s: below 0.5 s low, from 0.5 s to below 1 s
\* medium, from 1 s to 20 s high, above 20 s medium
C3_TierOfDuration ==
  verify.run =>
    \A summary \in DumpSummaries :
      (BoolTruthy(DictGet(summary.valid)) /\ HasPromptAndBounds(summary)) =>
        LET tier == ClaimedTier(summary.end_s.v - summary.start_s.v)
        IN /\ InfoIn(tier, summary)
           /\ \A b \in BucketSet \ {tier} : ~InfoIn(b, summary)

HasDuration(bucket, d) ==
  \E j \in 1..Len(verify.results[bucket]) : verify.results[bucket][j].duration = Val(d)

C3_Witness ==
  /\ verify.run
  /\ HasDuration("medium_confidence", HALF_SECOND)
  /\ HasDuration("high_confidence", TWENTY_SECONDS)
  /\ HasDuration("medium_confidence", TWENTY_SECONDS + 1)

C3_WitnessOneSecond ==
  /\ verify.run
  /\ HasDuration("high_confidence", ONE_SECOND)
  /\ HasDuration("low_confidence", HALF_SECOND - 1)
  /\ HasDuration("medium_confidence", ONE_SECOND - 1)

\* the three clips of the end-to-end example
ExampleClips ==
  << Rec(Val(TRUE), Val("Rich"), Val(0), Val(2 * ONE_SECOND)),
     Rec(Val(FALSE), Val("Rich"), Val(0), Val(2 * ONE_SECOND)),
     Rec(Val(TRUE), Val("Rich"), Val(0), Absent(0)) >>

\* 10 * (countHigh * 1.0 + countMedium * 0.7 + countLow * 0.3)
Weighted10 ==
  10 * Len(verify.results.high_confidence) + 7 * Len(verify.results.medium_confidence)
  + 3 * Len(verify.results.low_confidence)

\* C4: the score that is computed for a non-empty dump is
\* (countHigh 1.0 + countMedium 0.7 + countLow 0.3) / totalRecords * 100 to
\* one decimal, totalRecords counting every record of the dump; the three
\* example clips give one high, one invalid, one incomplete and 33.3
C4_ScoreFormula ==
  (verify.run /\ Len(dump.clips) > 0) =>
    /\ verify.err = "" => verify.score.k = "val"
    /\ verify.score.k = "val" =>
         LET n == Len(dump.clips)
             diff == 2 * n * verify.score.v - 2 * 100 * Weighted10
         IN 0 - n <= diff /\ diff <= n
    /\ dump.clips = ExampleClips =>
         /\ Len(verify.results.high_confidence) = 1
         /\ Len(verify.results.invalid) = 1
         /\ Len(verify.results.incomplete) = 1
         /\ Len(verify.results.medium_confidence) = 0
         /\ Len(verify.results.low_confidence) = 0
         /\ verify.score = Val(333)

C4_Witness ==
  /\ verify.run
  /\ dump.clips = ExampleClips
  /\ verify.score = Val(333)

\* entries of all buckets that are the clip_info of summary
Occurrences(summary) ==
  Cardinality({<<b, j>> \in BucketSet \X (1..MaxClips + 1) :
                 /\ j <= Len(verify.results[b])
                 /\ [verify.results[b][j] EXCEPT !.issues = <<>>] = clip_info_of(summary)})
Copies(summary) ==
  Cardinality({i \in 1..Len(dump.clips) :
                 clip_info_of(dump.clips[i].summary) = clip_info_of(summary)})
TotalBucketed ==
  Len(verify.results.high_confidence) + Len(verify.results.medium_confidence)
  + Len(verify.results.low_confidence) + Len(verify.results.invalid)
  + Len(verify.results.incomplete)

\* C5: the five buckets partition the records of the dump: each record is an
\* entry of exactly one bucket, the sizes add up to the number of records,
\* and the csv that is written has one data row for each record
C5_Partition ==
  verify.run =>
    /\ TotalBucketed = Len(dump.clips)
    /\ \A summary \in DumpSummaries :
         /\ Occurrences(summary) = Copies(summary)
         /\ Cardinality({b \in BucketSet : InfoIn(b, summary)}) = 1
    /\ verify.csv_written =>
         /\ Len(verify.csv) = Len(dump.clips)
         /\ \A b \in BucketSet :
              Cardinality({r \in 1..Len(verify.csv) : verify.csv[r].confidence = Upper(b)})
                = Len(verify.results[b])

C5_Witness ==
  /\ verify.run
  /\ verify.csv_written
  /\ Len(verify.csv) = 3
  /\ Len(verify.results.invalid) = 1
  /\ Len(verify.results.incomplete) = 1
  /\ Len(verify.results.low_confidence) = 1

----------------------------------------------------------------------------
(* Properties of the dump and its analysis, under Spec *)

\* no promptText (absent or null), or a bound missing
LacksPromptOrBound(summary) ==
  \/ IsNone(DictGet(summary.promptText))
  \/ IsNone(DictGet(summary.start_s))
  \/ IsNone(DictGet(summary.end_s))

\* C2: a summary built by get_data that has no promptText or lacks a bound
\* is incomplete for verify_clip_quality and MISSING_DATA for analyze_clips,
\* and nothing else, whatever its valid flag
C2_IncompleteWhateverValid ==
  /\ verify.run =>
       \A summary \in DumpSummaries :
         LacksPromptOrBound(summary) =>
           /\ InfoIn("incomplete", summary)
           /\ \A b \in BucketSet \ {"incomplete"} : ~InfoIn(b, summary)
  /\ analysis.run =>
       \A summary \in DumpSummaries :
         LacksPromptOrBound(summary) =>
           /\ summary \in SeqRange(analysis.missing_data_clips)
           /\ summary \notin SeqRange(analysis.valid_clips)
           /\ summary \notin SeqRange(analysis.invalid_clips)

\* <prefix>-s<3 digits>-<3 digits>, the prefix without a dash, nothing after
ClipIdGrammar(clip_id) ==
  LET p == NonDashRun(clip_id, 1)
  IN /\ p >= 1
     /\ Len(clip_id) = p + 9
     /\ clip_id[p+1] = "-"
     /\ clip_id[p+2] = "s"
     /\ IsDigits3(clip_id, p + 3)
     /\ clip_id[p+6] = "-"
     /\ IsDigits3(clip_id, p + 7)

\* C8: a document whose clip id is not of the form
\* <prefix>-s<3 digits>-<3 digits> gives no Clip Record, also when the only
\* fault is what follows the three digits of the clip index
C8_ClipIdGrammarEnforced ==
  \A i \in 1..Len(all_clips) :
    ClipIdGrammar(DictGet(doc_data(all_clips[i].full).clipId).v)

\* a clip document that is none of the malformed kinds
WellFormed(doc) ==
  LET data == doc_data(doc)
  IN /\ doc.id = "clipData-"
     /\ data # EmptyMap
     /\ StrTruthy(DictGet(data.clipId))
     /\ ClipIdGrammar(data.clipId.v)
     /\ StrTruthy(DictGet(data.filename))
     /\ match_filename(data.filename.v).ok
     /\ match_filename(data.filename.v).session = Int3(data.clipId.v, NonDashRun(data.clipId.v, 1) + 3)

RECURSIVE StoreFrom(_)
StoreFrom(u) == IF u > MaxUsers THEN <<>> ELSE store[u] \o StoreFrom(u + 1)
\* the documents of all users, in the order main fetches them
AllDocs == StoreFrom(1)

Fulls(clips) == [i \in 1..Len(clips) |-> clips[i].full]

\* C9: when every batch is fetched, the malformed clip documents have given
\* no Clip Record and each well-formed one has given exactly one
C9_OnlyMalformedSkipped ==
  pc = "sort_write" =>
    Fulls(all_clips) = SelectSeq(AllDocs, WellFormed)

----------------------------------------------------------------------------
(* Properties of get_clip_bounds_in_video, under SpecBounds *)

Present(ts) == TsTruthy(TsGet(ts))
Instant(ts) == parse_iso_timestamp(ts).t

\* the start and end events the claim names
ClaimedStart(clip_data) ==
  IF Present(clip_data.startButtonDownTimestamp) THEN clip_data.startButtonDownTimestamp
  ELSE clip_data.startButtonUpTimestamp
ClaimedEnd(clip_data) ==
  IF Present(clip_data.restartButtonDownTimestamp) THEN clip_data.restartButtonDownTimestamp
  ELSE IF Present(clip_data.swipeForwardTimestamp) THEN clip_data.swipeForwardTimestamp
  ELSE clip_data.swipeBackTimestamp

Returned == ret.done /\ ret.bounds.err = ""
ReturnedPair == Returned /\ ~IsNone(ret.bounds.start_s) /\ ~IsNone(ret.bounds.end_s)

\* C6: the bounds returned are those of the first present start event
\* (button down, else button up) and of the first present end event (restart
\* button down, else swipe forward, else swipe back), each minus videoStart
C6_FallbackOrder ==
  ReturnedPair =>
    /\ ret.bounds.start_s.v = Instant(ClaimedStart(call.arg)) - Instant(call.arg.videoStart)
    /\ ret.bounds.end_s.v = Instant(ClaimedEnd(call.arg)) - Instant(call.arg.videoStart)

C6_Witness ==
  /\ ReturnedPair
  /\ Present(call.arg.startButtonDownTimestamp) /\ Present(call.arg.startButtonUpTimestamp)
  /\ call.arg.startButtonDownTimestamp # call.arg.startButtonUpTimestamp
  /\ ~Present(call.arg.restartButtonDownTimestamp)
  /\ Present(call.arg.swipeForwardTimestamp) /\ Present(call.arg.swipeBackTimestamp)
  /\ call.arg.swipeForwardTimestamp # call.arg.swipeBackTimestamp
  /\ ret.bounds.start_s.v # ret.bounds.end_s.v

SomethingMissing(clip_data) ==
  \/ ~Present(clip_data.videoStart)
  \/ (~Present(clip_data.startButtonDownTimestamp) /\ ~Present(clip_data.startButtonUpTimestamp))
  \/ (/\ ~Present(clip_data.restartButtonDownTimestamp)
      /\ ~Present(clip_data.swipeForwardTimestamp)
      /\ ~Present(clip_data.swipeBackTimestamp))

\* C7: what get_clip_bounds_in_video returns is (None, None) or two numbers,
\* never one of each; it is (None, None) exactly when videoStart, every start
\* event or every end event is missing; and a summary of get_data has both
\* of the keys start_s and end_s or neither
C7_BothOrNeither ==
  ret.done =>
    /\ Returned => (IsNone(ret.bounds.start_s) <=> IsNone(ret.bounds.end_s))
    /\ (Returned /\ IsNone(ret.bounds.start_s) /\ IsNone(ret.bounds.end_s))
         <=> SomethingMissing(call.arg)
    /\ \A i \in 1..Len(ret.data.clips) :
         HasKey(ret.data.clips[i].summary.start_s) <=> HasKey(ret.data.clips[i].summary.end_s)
    /\ Returned => Len(ret.data.clips) = 1

C7_Witness ==
  /\ Returned
  /\ Present(call.arg.videoStart)
  /\ Present(call.arg.startButtonUpTimestamp)
  /\ SomethingMissing(call.arg)
  /\ ret.bounds = BoundsNone
  /\ Len(ret.data.clips) = 1
  /\ ~HasKey(ret.data.clips[1].summary.start_s)
  /\ ~HasKey(ret.data.clips[1].summary.end_s)

C7_WitnessPair ==
  /\ ReturnedPair
  /\ Len(ret.data.clips) = 1
  /\ HasKey(ret.data.clips[1].summary.start_s)
  /\ HasKey(ret.data.clips[1].summary.end_s)

----------------------------------------------------------------------------
(* Properties of analyze_session_gaps, under SpecGaps *)

\* the clip indices seen for a session, and those missing between the
\* smallest and the largest
Observed(session) ==
  {call.arg[i].summary.clipIndex.v :
     i \in {j \in 1..Len(call.arg) :
              /\ call.arg[j].summary.sessionIndex = Val(session)
              /\ call.arg[j].summary.clipIndex.k = "val"}}
Gaps(session) ==
  {k \in 0..(MaxClipIndex + 1) :
     /\ k \notin Observed(session)
     /\ \E lo \in Observed(session) : lo < k
     /\ \E hi \in Observed(session) : k < hi}

Ascending(seq) == \A i \in 1..Len(seq) : \A j \in 1..Len(seq) : i < j => seq[i] < seq[j]

\* C10: the gaps reported for a session are exactly the integers between
\* its smallest and largest clip index that are not among its clip indices,
\* in ascending order; a session without such integers has no report, and
\* the reports come by ascending session
C10_GapsExact ==
  ret.done =>
    LET report == ret.gaps.report
    IN /\ \A session \in 0..3 :
            IF Gaps(session) = {}
            THEN \A r \in 1..Len(report) : report[r].session # session
            ELSE \E r \in 1..Len(report) :
                   /\ report[r].session = session
                   /\ SeqRange(report[r].missing) = Gaps(session)
                   /\ Ascending(report[r].missing)
                   /\ \A q \in 1..Len(report) : report[q].session = session => q = r
       /\ Ascending([r \in 1..Len(report) |-> report[r].session])
       /\ ret.gaps.found_gaps <=> (\E session \in 0..3 : Gaps(session) # {})

C10_Witness ==
  /\ ret.done
  /\ Observed(1) = {0, 1, 3, 4}
  /\ Len(ret.gaps.report) = 1
  /\ ret.gaps.report[1].missing = <<2>>

C10_WitnessSingle ==
  /\ ret.done
  /\ Observed(1) = {0}
  /\ Observed(2) = {1, 4}
  /\ Len(ret.gaps.report) = 1
  /\ ret.gaps.report[1].session = 2
  /\ ret.gaps.report[1].missing = <<2, 3>>

\* the clip indices seen for a session of one user, and those missing
\* between that user's smallest and largest
ObservedOf(user, session) ==
  {call.arg[i].summary.clipIndex.v :
     i \in {j \in 1..Len(call.arg) :
              /\ call.arg[j].summary.userId = user
              /\ call.arg[j].summary.sessionIndex = Val(session)
              /\ call.arg[j].summary.clipIndex.k = "val"}}
GapsOf(user, session) ==
  {k \in 0..(MaxClipIndex + 1) :
     /\ k \notin ObservedOf(user, session)
     /\ \E lo \in ObservedOf(user, session) : lo < k
     /\ \E hi \in ObservedOf(user, session) : k < hi}
GapUsers == {<<"u", "u">>, <<"v", "v">>}

\* C11: sessions are grouped per user: every index reported missing for a
\* session is a gap of some user's clips of that session (no gap is created
\* by another user's clips), and every gap of a user's session is reported
\* (no gap is masked by another user's clips)
C11_GroupedPerUser ==
  ret.done =>
    LET report == ret.gaps.report
    IN /\ \A r \in 1..Len(report) : \A k \in SeqRange(report[r].missing) :
            \E user \in GapUsers : k \in GapsOf(user, report[r].session)
       /\ \A user \in GapUsers : \A session \in 1..2 : \A k \in GapsOf(user, session) :
            \E r \in 1..Len(report) :
              report[r].session = session /\ k \in SeqRange(report[r].missing)


----------------------------------------------------------------------------
(* Properties of detect_missing_prompts, under SpecPrompts *)

\* the non-empty prompt texts of the dump, and whether one is on a valid /
\* on an invalid record
DumpPrompts ==
  {TextOf(dump.clips[i].summary.promptText.v) :
     i \in {j \in 1..Len(dump.clips) :
              /\ dump.clips[j].summary.promptText.k = "val"
              /\ dump.clips[j].summary.promptText.v # ""}}
OnValid(text) ==
  \E i \in 1..Len(dump.clips) :
    /\ dump.clips[i].summary.promptText = Val(text[1])
    /\ dump.clips[i].summary.valid = Val(TRUE)
OnInvalid(text) ==
  \E i \in 1..Len(dump.clips) :
    /\ dump.clips[i].summary.promptText = Val(text[1])
    /\ dump.clips[i].summary.valid # Val(TRUE)
ClaimedCategory(text) ==
  IF OnValid(text) /\ ~OnInvalid(text) THEN "completed_first_try"
  ELSE IF OnValid(text) /\ OnInvalid(text) THEN "completed_with_retries"
  ELSE "never_accepted"

\* C12: each distinct non-empty promptText of the dump has exactly one
\* entry in the prompt report, with the category its membership gives:
\* on valid records only -> completed_first_try, on valid and on invalid
\* records -> completed_with_retries, on invalid records only ->
\* never_accepted; no other entry exists and none is `unknown`
C12_CategoryByMembership ==
  prompts.run =>
    LET report == prompts.prompt_report
    IN /\ \A text \in DumpPrompts :
            \E i \in 1..Len(report) :
              /\ report[i].prompt = text
              /\ report[i].category = ClaimedCategory(text)
              /\ \A j \in 1..Len(report) : report[j].prompt = text => j = i
       /\ \A i \in 1..Len(report) :
            /\ report[i].prompt \in DumpPrompts
            /\ report[i].category # "unknown"
            /\ prompts.csv[i] = report[i]

C12_Witness ==
  /\ prompts.run
  /\ \E i \in 1..Len(prompts.prompt_report) :
       prompts.prompt_report[i].category = "completed_with_retries"

C12_WitnessNeverAccepted ==
  /\ prompts.run
  /\ Len(prompts.prompt_report) = 2
  /\ prompts.prompt_report[1].category = "never_accepted"
  /\ prompts.prompt_report[2].category = "completed_first_try"

\* the reference prompts of the file as the specification reads it: the
\* lines that are not blank and are not comments
IsComment(line) == strip(line) # <<>> /\ Head(strip(line)) = "#"
ReferencePrompts(file) ==
  {strip(file.lines[i]) :
     i \in {j \in 1..Len(file.lines) :
              strip(file.lines[j]) # <<>> /\ ~IsComment(file.lines[j])}}
SkippedRows ==
  {prompts.csv[i].prompt :
     i \in {j \in 1..Len(prompts.csv) : prompts.csv[j].category = "completely_skipped"}}

\* C13: with a reference file, the prompts reported as completely_skipped
\* are exactly the reference prompts (blank lines ignored, # lines being
\* comments) that were not attempted; a comment line is never reported, and
\* no prompt is reported both as attempted and as completely_skipped
C13_SkippedAreUnattemptedReference ==
  \A file \in RefFiles :
    (file.found /\ prompts.run /\ prompts.expected = expected_prompts(file)) =>
       /\ SkippedRows = ReferencePrompts(file) \ DumpPrompts
       /\ SeqRange(prompts.skipped) = ReferencePrompts(file) \ DumpPrompts
       /\ \A text \in SkippedRows : Head(text) # "#"
       /\ SkippedRows \cap DumpPrompts = {}

----------------------------------------------------------------------------
(* Properties of dump_4.main, under SpecMain *)

\* what get_data gives for the first n users, one batch after the other
RECURSIVE FetchedClips(_)
FetchedClips(n) ==
  IF n = 0 THEN <<>> ELSE FetchedClips(n - 1) \o get_data(store[n]).clips
RECURSIVE FetchedSessions(_)
FetchedSessions(n) ==
  IF n = 0 THEN <<>> ELSE FetchedSessions(n - 1) \o get_data(store[n]).sessions

\* the users whose fetch has returned
UsersFetched == IF pc \in {"fetch", "crashed"} THEN ui - 1 ELSE MaxUsers

CountIn(seq, x) == Cardinality({i \in 1..Len(seq) : seq[i] = x})
SameRecords(a, b) ==
  /\ Len(a) = Len(b)
  /\ \A i \in 1..Len(a) : CountIn(a, a[i]) = CountIn(b, a[i])

\* C14: whatever RetryErrors there were, the accumulated lists are the
\* batches of the users fetched so far, each once and whole, in order: no
\* record of a failed attempt, no record twice, none of an earlier user
\* lost; the dump written at the end holds the same records, sorted
C14_EachBatchOnce ==
  /\ pc \in {"fetch", "crashed", "sort_write"} =>
        /\ all_clips = FetchedClips(UsersFetched)
        /\ all_sessions = FetchedSessions(UsersFetched)
  /\ pc = "done" =>
        /\ SameRecords(all_clips, FetchedClips(MaxUsers))
        /\ SameRecords(all_sessions, FetchedSessions(MaxUsers))
        /\ dump.clips = all_clips
        /\ dump.sessions = all_sessions

C14_Witness ==
  /\ pc = "sort_write"
  /\ retries = MaxRetries
  /\ get_data(store[1]).clips # <<>>
  /\ get_data(store[2]).clips # <<>>
  /\ Len(all_clips) = 2

----------------------------------------------------------------------------
(* Properties of the three analysis scripts together, under Spec *)

\* C15: whatever the dump holds, also no clip at all, each analysis pass
\* that is run (analyze_clips, verify_clip_quality, detect_missing_prompts)
\* finishes without an error and has written its csv report
C15_EveryPassCompletes ==
  /\ verify.run => (verify.err = "" /\ verify.csv_written)
  /\ analysis.run => (analysis.err = "" /\ analysis.csv_written)
  /\ prompts.run => prompts.csv_written

----------------------------------------------------------------------------
(* Order of the bounds, under SpecBounds *)

\* C16: bounds that get_clip_bounds_in_video returns, and that the Clip
\* Record carries, have start_s <= end_s
C16_StartNotAfterEnd ==
  ReturnedPair =>
    /\ ret.bounds.start_s.v <= ret.bounds.end_s.v
    /\ \A i \in 1..Len(ret.data.clips) :
         ret.data.clips[i].summary.start_s.v <= ret.data.clips[i].summary.end_s.v

----------------------------------------------------------------------------
(* The retry loop of main, under SpecMainFair *)

\* fetched is what get_data computes from the store
FetchedIsGetData == \A u \in Usernames : fetched[u] = get_data(store[u])

EveryFetchCanReturn == \A u \in Usernames : fetched[u].err = ""

\* while a user is being fetched another RetryError is always possible; the
\* dump is written only at the end; sort-and-write is reached only with
\* every user fetched
RetryLoopInvariant ==
  /\ FetchedIsGetData
  /\ pc = "fetch" => ENABLED FetchRetryError
  /\ pc = "fetch" => ~dump.written
  /\ pc \in {"sort_write", "done"} =>
        /\ ui = MaxUsers
        /\ EveryFetchCanReturn
        /\ SameRecords(all_clips, FetchedClips(MaxUsers))
  /\ dump.written <=> pc = "done"

\* a RetryError leaves main at the fetch of the same user with nothing
\* changed; main passes to the next user, or to sort-and-write after the
\* last, only by a get_data that returns
RetryLoopStep ==
  /\ retries' # retries =>
        /\ pc = "fetch" /\ pc' = "fetch" /\ ui' = ui
        /\ UNCHANGED <<all_clips, all_sessions, dump>>
  /\ (ui' # ui \/ (pc = "fetch" /\ pc' = "sort_write")) =>
        /\ pc = "fetch"
        /\ get_data(store[ui]).err = ""
        /\ all_clips' = all_clips \o get_data(store[ui]).clips
        /\ IF ui < MaxUsers THEN ui' = ui + 1 /\ pc' = "fetch"
                            ELSE ui' = ui /\ pc' = "sort_write"

\* C17: the fetch loop retries without bound: after a RetryError main is
\* at the same user's fetch again, however many there were; it leaves a
\* user only when get_data returns, and reaches sort-and-write only with
\* every user fetched; no output is written before; and when every user's
\* fetch returns after finitely many RetryErrors, the run ends with the
\* dump written
C17_RetryUntilReturn ==
  /\ []RetryLoopInvariant
  /\ [][RetryLoopStep]_vars
  /\ (EveryFetchCanReturn ~> (pc = "done" /\ dump.written))

C17_Witness ==
  /\ pc = "done"
  /\ dump.written
  /\ retries = MaxRetries
  /\ Len(dump.clips) > 0

----------------------------------------------------------------------------
(* An unparseable timestamp, under SpecMainFair *)

Unparseable(ts) == ts.k = "str" /\ ts.form = "bad"

\* a clip document that passes identifier parsing, has videoStart, a start
\* event and an end event, and one of the three chosen strings does not parse
BadTimestampDoc(doc) ==
  LET data == doc_data(doc)
  IN /\ doc.id = "clipData-"
     /\ data # EmptyMap
     /\ StrTruthy(DictGet(data.clipId)) /\ match_clip_id(data.clipId.v).ok
     /\ StrTruthy(DictGet(data.filename)) /\ match_filename(data.filename.v).ok
     /\ match_clip_id(data.clipId.v).session = match_filename(data.filename.v).session
     /\ Present(data.videoStart) /\ Present(ClaimedStart(data)) /\ Present(ClaimedEnd(data))
     /\ \/ Unparseable(data.videoStart)
        \/ Unparseable(ClaimedStart(data))
        \/ Unparseable(ClaimedEnd(data))
HasBadTimestampDoc(u) == \E i \in 1..Len(store[u]) : BadTimestampDoc(store[u][i])

\* C18: a document with an unparseable chosen timestamp is not skipped:
\* get_data raises ValueError for its user, main never passes that user and
\* never reaches sort-and-write, no dump is ever written, and once the
\* fetches before it have returned the run ends aborted, whatever records
\* were accumulated
C18_ValueErrorAbortsRun ==
  /\ [](\A u \in Usernames :
          HasBadTimestampDoc(u) =>
            /\ get_data(store[u]).err = "ValueError"
            /\ fetched[u] = get_data(store[u])
            /\ ui <= u
            /\ pc \in {"fetch", "crashed"}
            /\ ~dump.written)
  /\ [][(pc = "fetch" /\ HasBadTimestampDoc(ui)) =>
          (pc' = "crashed" /\ UNCHANGED <<ui, all_clips, all_sessions, dump>>)]_<<pc, ui, all_clips, all_sessions, dump>>
  /\ [][pc # "crashed"]_vars
  /\ ((\E u \in Usernames : fetched[u].err = "ValueError") ~> (pc = "crashed"))

C18_Witness ==
  /\ pc = "crashed"
  /\ ui = 2
  /\ HasBadTimestampDoc(2)
  /\ all_clips # <<>>
  /\ ~dump.written

====
